---- MODULE Spec2Model ----
(***************************************************************************)
(* Model of src/google-books.ts: the two exported lookups, search and      *)
(* searchByIsbn.  Each call is an async function with one await (the got   *)
(* request); everything after the await runs synchronously, so a call has  *)
(* two steps: issuing the request, and the continuation run when the       *)
(* request settles.                                                        *)
(*                                                                         *)
(* Strings are sequences of one-character strings.  An optional field is   *)
(* None (absent) or Some(v).  Scores are kept in hundredths, so that       *)
(* ratingsCount / 100 stays an integer: a score of 10 is 1000 here.        *)
(***************************************************************************)
EXTENDS Integers, Sequences, FiniteSets, TLC

\* Largest number of items in a provider response.
MaxItems == 3
\* Number of calls the host program may have in flight at once.
NumCalls == 2

Calls == 1..NumCalls

None == <<>>
Some(v) == <<v>>

-----------------------------------------------------------------------------
(* String primitives of the JavaScript runtime used by the source.          *)

Lower(ch) == IF ch = "D" THEN "d" ELSE IF ch = "M" THEN "m" ELSE ch

toLowerCase(s) == [i \in 1..Len(s) |-> Lower(s[i])]

RECURSIVE trimStart(_)
trimStart(s) == IF s # <<>> /\ Head(s) = " " THEN trimStart(Tail(s)) ELSE s

RECURSIVE trimEnd(_)
trimEnd(s) ==
  IF s # <<>> /\ s[Len(s)] = " " THEN trimEnd(SubSeq(s, 1, Len(s) - 1)) ELSE s

trim(s) == trimEnd(trimStart(s))

\* String.prototype.includes: t occurs in s as a contiguous substring.
includes(s, t) ==
  \E i \in 1..(Len(s) - Len(t) + 1) : SubSeq(s, i, i + Len(t) - 1) = t

\* query.match(/^[0-9-]+$/): one or more characters, all digits or hyphens.
matchesDigitsHyphens(s) ==
  /\ s # <<>>
  /\ \A i \in 1..Len(s) : s[i] \in {"9", "-"}

IsHyphenFree(ch) == ch # "-"

\* Variant of removeHyphens without the g flag, isbn.replace('-', ''): only
\* the first hyphen is removed.
RECURSIVE removeFirstHyphen(_)
removeFirstHyphen(s) ==
  IF s = <<>> THEN <<>>
  ELSE IF Head(s) = "-" THEN Tail(s)
  ELSE <<Head(s)>> \o removeFirstHyphen(Tail(s))

\* isbn.replace(/-/g, ''): every hyphen removed.
removeHyphens(s) == SelectSeq(s, IsHyphenFree)

\* x || 0 for an optional number.
NumOr0(opt) == IF opt = None THEN 0 ELSE opt[1]

\* Truthiness of an optional string: present and not "".
TruthyStr(opt) == opt # None /\ opt[1] # <<>>

-----------------------------------------------------------------------------
(* The provider's data (interface Book) and the inputs of the calls.        *)

Vol(t, r, n, d, im, ids) ==
  [title |-> t, averageRating |-> r, ratingsCount |-> n, description |-> d,
   imageLinks |-> im, industryIdentifiers |-> ids]

Thumb == Some([thumbnail |-> Some(<<"u">>)])
Isbn13 == [type |-> "ISBN_13", identifier |-> <<"9", "9">>]
Isbn10 == [type |-> "ISBN_10", identifier |-> <<"9">>]

\* volumeInfo blocks a provider may return.  With the query "d": exact titles
\* ("d", " D"), titles containing the query ("d m"), unrelated titles ("m")
\* and the empty title, with low and high ratings and completeness.
Volumes ==
  { Vol(<<"d">>, None, None, None, None, None),
    Vol(<<" ", "D">>, Some(4), Some(1000), Some(<<"x">>), Thumb, Some(<<Isbn13, Isbn10>>)),
    Vol(<<"d", " ", "m">>, Some(5), Some(100), Some(<<"x">>), Thumb, Some(<<Isbn10>>)),
    Vol(<<"d", " ", "m">>, Some(3), Some(0), Some(<<>>), None, Some(<<>>)),
    Vol(<<"m">>, Some(5), Some(2100), Some(<<"x">>), Thumb, Some(<<Isbn13>>)),
    Vol(<<"m">>, Some(3), None, Some(<<"x">>), Some([thumbnail |-> None]), None),
    Vol(<<>>, Some(4), Some(200), None, Thumb, None) }

\* A response's items: item i carries the provider's opaque id i.
RECURSIVE SeqsUpTo(_, _)
SeqsUpTo(S, n) ==
  IF n = 0 THEN {<<>>}
  ELSE LET shorter == SeqsUpTo(S, n - 1)
       IN  shorter \cup {Append(s, x) : s \in {t \in shorter : Len(t) = n - 1}, x \in S}

WithIds(vs) == [i \in 1..Len(vs) |-> [id |-> i, volumeInfo |-> vs[i]]]

ItemLists == {WithIds(vs) : vs \in SeqsUpTo(Volumes, MaxItems)}

\* results.body of a successful response: items absent, or a list.
Bodies == {[items |-> None]} \cup {[items |-> Some(l)] : l \in ItemLists}

Queries == { <<"d">>, <<"D", " ">>, <<" ">>, <<"9", "-", "9">>, <<"m", ":">> }

Opt(mr, ex, mx, lang) ==
  [minRating |-> mr, exactTitleMatch |-> ex, maxResults |-> mx, language |-> lang]

\* SearchOptions: every field optional.
Options ==
  {Opt(mr, ex, None, None) : mr \in {None, Some(4), Some(6)},
                             ex \in {None, Some(FALSE), Some(TRUE)}}
    \cup {Opt(None, None, Some(40), Some(<<"e", "n">>))}

Isbns == { <<"9", "-", "9">>, <<"9", "9">>, <<"-", "9", "-", "-">> }

\* Failures the HTTP collaborator may reject with.
TransportErrors ==
  { [name |-> "RequestError", message |-> <<"ETIMEDOUT">>],
    [name |-> "HTTPError", message |-> <<"503">>] }

\* How the TypeScript build treats the const binding of scoredResults, which
\* the source assigns to: lowered to var (assignment succeeds) or kept as
\* const (assignment throws TypeError at run time).
Builds == {"var", "const"}

-----------------------------------------------------------------------------
(* search: the relevance score of one book, in hundredths (lines 127-157).  *)

titleExact(volumeInfo, query) ==
  /\ volumeInfo.title # <<>>
  /\ trim(toLowerCase(query)) = trim(toLowerCase(volumeInfo.title))

titlePartial(volumeInfo, query) ==
  /\ volumeInfo.title # <<>>
  /\ includes(toLowerCase(volumeInfo.title), toLowerCase(query))

\* Variant of titleBonus with two independent ifs in place of if / else if:
\* a title that equals the query and contains it gets both bonuses.
titleBonusStacked(volumeInfo, query) ==
  (IF titleExact(volumeInfo, query) THEN 5000 ELSE 0)
    + (IF titlePartial(volumeInfo, query) THEN 2000 ELSE 0)

\* Variant of titleBonus with the two amounts exchanged.
titleBonusSwapped(volumeInfo, query) ==
  IF titleExact(volumeInfo, query) THEN 2000
  ELSE IF titlePartial(volumeInfo, query) THEN 5000
  ELSE 0

titleBonus(volumeInfo, query) ==
  IF titleExact(volumeInfo, query) THEN 5000
  ELSE IF titlePartial(volumeInfo, query) THEN 2000
  ELSE 0

hasThumbnail(volumeInfo) ==
  /\ volumeInfo.imageLinks # None
  /\ TruthyStr(volumeInfo.imageLinks[1].thumbnail)

hasIdentifiers(volumeInfo) ==
  /\ volumeInfo.industryIdentifiers # None
  /\ Len(volumeInfo.industryIdentifiers[1]) > 0

completeness(volumeInfo) ==
  (IF TruthyStr(volumeInfo.description) THEN 500 ELSE 0)
    + (IF hasThumbnail(volumeInfo) THEN 500 ELSE 0)
    + (IF hasIdentifiers(volumeInfo) THEN 500 ELSE 0)

score(book, query) ==
  1000 + NumOr0(book.volumeInfo.ratingsCount)
       + NumOr0(book.volumeInfo.averageRating) * 500
       + titleBonus(book.volumeInfo, query)
       + completeness(book.volumeInfo)

\* results.body.items.map(book => ({book, score})).
scoreAll(items, query) ==
  [i \in 1..Len(items) |-> [book |-> items[i], score |-> score(items[i], query)]]

-----------------------------------------------------------------------------
(* search: the two filters, the fallback and the sort (lines 159-186).      *)

ratingFilter(scored, minRating) ==
  LET Keep(item) == NumOr0(item.book.volumeInfo.averageRating) >= minRating
  IN  SelectSeq(scored, Keep)

exactMatchesOf(scored, query) ==
  LET Keep(item) ==
        trim(toLowerCase(item.book.volumeInfo.title)) = trim(toLowerCase(query))
  IN  SelectSeq(scored, Keep)

\* results.body.items.map(book => ({book, score: 0})).
zeroScored(items) == [i \in 1..Len(items) |-> [book |-> items[i], score |-> 0]]

\* Variant of insertSorted for a sort that is not stable: x goes in front of
\* the elements of equal score.
RECURSIVE insertBeforeEqual(_, _)
insertBeforeEqual(sorted, x) ==
  IF sorted = <<>> THEN <<x>>
  ELSE IF Head(sorted).score > x.score
       THEN <<Head(sorted)>> \o insertBeforeEqual(Tail(sorted), x)
       ELSE <<x>> \o sorted

\* Array.prototype.sort with (a, b) => b.score - a.score: descending, and
\* stable (ECMAScript 2019): x goes behind every element that does not sort
\* after it.
RECURSIVE insertSorted(_, _)
insertSorted(sorted, x) ==
  IF sorted = <<>> THEN <<x>>
  ELSE IF Head(sorted).score >= x.score
       THEN <<Head(sorted)>> \o insertSorted(Tail(sorted), x)
       ELSE <<x>> \o sorted

RECURSIVE sortByScore(_)
sortByScore(scored) ==
  IF scored = <<>> THEN <<>>
  ELSE insertSorted(sortByScore(SubSeq(scored, 1, Len(scored) - 1)),
                    scored[Len(scored)])

-----------------------------------------------------------------------------
(* Normalization of the chosen book (lines 188-214 and 241-267).  The       *)
(* fields copied with a plain || default and no decision attached (authors, *)
(* publisher, publishedDate, language, categories, pageCount, the three     *)
(* links) are left out.  URL encoding is not applied.                       *)

RECURSIVE findIdentifier(_, _)
findIdentifier(ids, type) ==
  IF ids = <<>> THEN None
  ELSE IF Head(ids).type = type THEN Some(Head(ids).identifier)
  ELSE findIdentifier(Tail(ids), type)

identifiersOrEmpty(volumeInfo) ==
  IF volumeInfo.industryIdentifiers = None THEN <<>>
  ELSE volumeInfo.industryIdentifiers[1]

\* The image-search URL built from "<title> by <authors>" when there is no
\* thumbnail; the authors, not modelled, join to the empty string.
fallbackImage(volumeInfo) ==
  <<"https://tse2.mm.bing.net/th?q=">> \o volumeInfo.title \o <<" by ">>
    \o <<"&w=256&c=7&rs=1&p=0&dpr=3&pid=1.7&mkt=en-IN&adlt=moderate">>

image(volumeInfo) ==
  IF hasThumbnail(volumeInfo) THEN volumeInfo.imageLinks[1].thumbnail[1]
  ELSE fallbackImage(volumeInfo)

normalize(result) ==
  [title |-> result.volumeInfo.title,
   description |-> IF TruthyStr(result.volumeInfo.description)
                   THEN result.volumeInfo.description[1] ELSE <<>>,
   image |-> image(result.volumeInfo),
   averageRating |-> NumOr0(result.volumeInfo.averageRating),
   ratingsCount |-> NumOr0(result.volumeInfo.ratingsCount),
   isbn10 |-> findIdentifier(identifiersOrEmpty(result.volumeInfo), "ISBN_10"),
   isbn13 |-> findIdentifier(identifiersOrEmpty(result.volumeInfo), "ISBN_13"),
   googleBooks |-> [id |-> result.id]]

-----------------------------------------------------------------------------
(* The continuation of search after the await (lines 118-214).              *)

notFound == [name |-> "Error", message |-> <<"Book not found">>]

isbnNotFound(isbn) ==
  [name |-> "Error", message |-> <<"Book with ISBN ">> \o isbn \o <<" not found">>]

\* What an assignment to a binding declared const throws at run time.
constAssignment ==
  [name |-> "TypeError", message |-> <<"Assignment to constant variable.">>]

\* scoredResults is declared const (line 127) and assigned to (lines 161, 173
\* and 179): the assignment succeeds only where the build lowered const to var.
canAssign(b) == b = "var"

minRatingOf(options) ==
  IF options.minRating = None THEN 0 ELSE options.minRating[1]

exactTitleMatchOf(options) ==
  IF options.exactTitleMatch = None THEN FALSE ELSE options.exactTitleMatch[1]

noItems(body) == body.items = None \/ Len(body.items[1]) = 0

Locals(m, w, s, r, t) ==
  [mapped |-> m, working |-> w, scoredResults |-> s, returned |-> r, thrown |-> t]

\* The run of lines 118-214 on a response body: the value the map produced,
\* the working set that reached the sort, the final scoredResults, and the
\* book returned or the error thrown.
searchRun(b, query, options, body) ==
  IF noItems(body) THEN Locals(<<>>, <<>>, <<>>, None, Some(notFound))
  ELSE
    LET items == body.items[1]
        minRating == minRatingOf(options)
        mapped == scoreAll(items, query)
        afterRating == IF minRating > 0 THEN ratingFilter(mapped, minRating)
                       ELSE mapped
        exactMatches == exactMatchesOf(afterRating, query)
        narrows == exactTitleMatchOf(options) /\ Len(exactMatches) > 0
        afterExact == IF narrows THEN exactMatches ELSE afterRating
        revert == Len(afterExact) = 0
        working == IF revert THEN zeroScored(items) ELSE afterExact
        sorted == sortByScore(working)
    IN  IF (minRating > 0 \/ narrows \/ revert) /\ ~canAssign(b)
        THEN Locals(mapped, <<>>, mapped, None, Some(constAssignment))
        ELSE Locals(mapped, working, sorted, Some(normalize(sorted[1].book)), None)

\* After the await of searchByIsbn (lines 233-267).
isbnRun(isbn, body) ==
  IF noItems(body) THEN Locals(<<>>, <<>>, <<>>, None, Some(isbnNotFound(isbn)))
  ELSE Locals(<<>>, <<>>, <<>>, Some(normalize(body.items[1][1])), None)

-----------------------------------------------------------------------------
(* The requests handed to got (lines 101-116 and 224-231).  A request is    *)
(* kept as its parameters, before URL encoding.                             *)

searchQuery(query) ==
  IF ~includes(query, <<":">>) /\ ~matchesDigitsHyphens(query)
  THEN <<"intitle:", "\"">> \o query \o <<"\"">>
  ELSE query

searchRequest(query, options) ==
  [q |-> searchQuery(query),
   langRestrict |-> IF TruthyStr(options.language) THEN options.language ELSE None,
   maxResults |-> IF options.maxResults = None THEN Some(10) ELSE options.maxResults]

isbnRequest(isbn) ==
  [q |-> <<"isbn:">> \o removeHyphens(isbn), langRestrict |-> None, maxResults |-> None]

-----------------------------------------------------------------------------
VARIABLES
  build,          \* how the build treats the const binding (see Builds)
  op,             \* op[c]: the function call c invokes, "none" if never made
  args,           \* args[c]: [query, options, isbn] of call c
  pc,             \* pc[c]: "start", "awaiting", "returned" or "threw"
  requests,       \* requests[c]: the requests call c handed to got, in order
  results,        \* results[c]: the response body call c received, if any
  rejection,      \* rejection[c]: the failure got rejected call c with, if any
  locals,         \* locals[c]: mapped, working, scoredResults of call c
  returned,       \* returned[c]: the BookResult call c resolved with, if any
  thrown          \* thrown[c]: the error call c rejected with, if any

vars == <<build, op, args, pc, requests, results, rejection, locals, returned, thrown>>

NoOptions == Opt(None, None, None, None)
NoLocals == [mapped |-> <<>>, working |-> <<>>, scoredResults |-> <<>>]

SearchArgs(Q, O) == {[query |-> q, options |-> o, isbn |-> <<>>] : q \in Q, o \in O}
IsbnArgs(I) == {[query |-> <<>>, options |-> NoOptions, isbn |-> i] : i \in I}

Fresh ==
  /\ pc = [c \in Calls |-> "start"]
  /\ requests = [c \in Calls |-> <<>>]
  /\ results = [c \in Calls |-> None]
  /\ rejection = [c \in Calls |-> None]
  /\ locals = [c \in Calls |-> NoLocals]
  /\ returned = [c \in Calls |-> None]
  /\ thrown = [c \in Calls |-> None]

\* One call, with any of the inputs.
Init ==
  /\ build \in Builds
  /\ \E o \in {"search", "searchByIsbn"} :
       /\ op = [c \in Calls |-> IF c = 1 THEN o ELSE "none"]
       /\ \E a \in (IF o = "search" THEN SearchArgs(Queries, Options) ELSE IsbnArgs(Isbns)) :
            args = [c \in Calls |-> IF c = 1 THEN a
                                    ELSE [query |-> <<>>, options |-> NoOptions, isbn |-> <<>>]]
  /\ Fresh

Settle(c, run, state) ==
  /\ locals' = [locals EXCEPT ![c] = [mapped |-> run.mapped, working |-> run.working,
                                      scoredResults |-> run.scoredResults]]
  /\ returned' = [returned EXCEPT ![c] = run.returned]
  /\ thrown' = [thrown EXCEPT ![c] = run.thrown]
  /\ pc' = [pc EXCEPT ![c] = state]

\* search up to its await: the request is built and handed to got.
SearchRequest(c) ==
  /\ op[c] = "search" /\ pc[c] = "start"
  /\ requests' = [requests EXCEPT ![c] = Append(@, searchRequest(args[c].query, args[c].options))]
  /\ pc' = [pc EXCEPT ![c] = "awaiting"]
  /\ UNCHANGED <<build, op, args, results, rejection, locals, returned, thrown>>

\* got resolves with one of the bodies B: the rest of search runs to its
\* return or throw.
SearchFulfilled(c, B) ==
  /\ op[c] = "search" /\ pc[c] = "awaiting"
  /\ \E body \in B :
       /\ results' = [results EXCEPT ![c] = Some(body)]
       /\ LET run == searchRun(build, args[c].query, args[c].options, body)
          IN  Settle(c, run, IF run.thrown = None THEN "returned" ELSE "threw")
  /\ UNCHANGED <<build, op, args, requests, rejection>>

\* Variant of SearchRejected that retries: on a rejection the request is
\* handed to got again and the call keeps waiting.
SearchRejectedRetry(c, err) ==
  /\ op[c] = "search" /\ pc[c] = "awaiting"
  /\ requests' = [requests EXCEPT ![c] = Append(@, searchRequest(args[c].query, args[c].options))]
  /\ UNCHANGED <<build, op, args, pc, results, rejection, locals, returned, thrown>>

\* got rejects: the await throws and the failure leaves search as it is.
SearchRejected(c, err) ==
  /\ op[c] = "search" /\ pc[c] = "awaiting"
  /\ rejection' = [rejection EXCEPT ![c] = Some(err)]
  /\ thrown' = [thrown EXCEPT ![c] = Some(err)]
  /\ pc' = [pc EXCEPT ![c] = "threw"]
  /\ UNCHANGED <<build, op, args, requests, results, locals, returned>>

IsbnRequest(c) ==
  /\ op[c] = "searchByIsbn" /\ pc[c] = "start"
  /\ requests' = [requests EXCEPT ![c] = Append(@, isbnRequest(args[c].isbn))]
  /\ pc' = [pc EXCEPT ![c] = "awaiting"]
  /\ UNCHANGED <<build, op, args, results, rejection, locals, returned, thrown>>

IsbnFulfilled(c, B) ==
  /\ op[c] = "searchByIsbn" /\ pc[c] = "awaiting"
  /\ \E body \in B :
       /\ results' = [results EXCEPT ![c] = Some(body)]
       /\ LET run == isbnRun(args[c].isbn, body)
          IN  Settle(c, run, IF run.thrown = None THEN "returned" ELSE "threw")
  /\ UNCHANGED <<build, op, args, requests, rejection>>

IsbnRejected(c, err) ==
  /\ op[c] = "searchByIsbn" /\ pc[c] = "awaiting"
  /\ rejection' = [rejection EXCEPT ![c] = Some(err)]
  /\ thrown' = [thrown EXCEPT ![c] = Some(err)]
  /\ pc' = [pc EXCEPT ![c] = "threw"]
  /\ UNCHANGED <<build, op, args, requests, results, locals, returned>>

Step(c, B) ==
  \/ SearchRequest(c)
  \/ SearchFulfilled(c, B)
  \/ \E err \in TransportErrors : SearchRejected(c, err)
  \/ IsbnRequest(c)
  \/ IsbnFulfilled(c, B)
  \/ \E err \in TransportErrors : IsbnRejected(c, err)

Next == \E c \in Calls : Step(c, Bodies)

Spec == Init /\ [][Next]_vars

-----------------------------------------------------------------------------
(* Several calls in flight at once, over a small provider.                  *)

ConcurrentVolumes ==
  { Vol(<<"d">>, None, None, None, None, None),
    Vol(<<"d", " ", "m">>, Some(5), Some(100), Some(<<"x">>), Thumb, Some(<<Isbn10>>)) }

ConcurrentBodies ==
  {[items |-> None]}
    \cup {[items |-> Some(WithIds(vs))] : vs \in SeqsUpTo(ConcurrentVolumes, 2) \ {<<>>}}

ConcurrentArgs ==
  SearchArgs({<<"d">>}, {NoOptions, Opt(Some(4), Some(TRUE), None, None)})
    \cup IsbnArgs({<<"9", "-", "9">>})

InitConcurrent ==
  /\ build \in Builds
  /\ args \in [Calls -> ConcurrentArgs]
  /\ op = [c \in Calls |-> IF args[c].isbn = <<>> THEN "search" ELSE "searchByIsbn"]
  /\ Fresh

NextConcurrent == \E c \in Calls : Step(c, ConcurrentBodies)

SpecConcurrent == InitConcurrent /\ [][NextConcurrent]_vars

-----------------------------------------------------------------------------
(* Vocabulary of the properties.                                            *)

\* Call c is a search that received a response body.
Answered(c) == op[c] = "search" /\ results[c] # None

\* The candidates of the response call c received (none if items is absent).
Candidates(c) == IF noItems(results[c][1]) THEN <<>> ELSE results[c][1].items[1]

Rating(book) == NumOr0(book.volumeInfo.averageRating)

\* The title equals the query once both are lower-cased and trimmed.
SameTitle(title, query) == trim(toLowerCase(title)) = trim(toLowerCase(query))

MinRating(c) == minRatingOf(args[c].options)
ExactRequested(c) == exactTitleMatchOf(args[c].options)

\* The positions of the candidates that reach the call's minRating.
Reaching(c) ==
  {i \in 1..Len(Candidates(c)) : Rating(Candidates(c)[i]) >= MinRating(c)}

\* The positions left after the rating filter.
AfterRatingFilter(c) ==
  IF MinRating(c) > 0 THEN Reaching(c) ELSE 1..Len(Candidates(c))

\* The book the same call returns under other options (None if it throws).
ReturnedWith(c, options) ==
  searchRun(build, args[c].query, options, results[c][1]).returned

ReturnsBook(c) == pc[c] = "returned" /\ returned[c] # None /\ thrown[c] = None

-----------------------------------------------------------------------------
\* C1: a search that received a response fails with the not-found error iff
\* the items list is absent or empty; with at least one candidate it returns,
\* for every minRating and exactTitleMatch, exactly one book, which is the
\* normalization of one of the returned candidates.
C1_NotFoundIffNoItems ==
  \A c \in Calls : Answered(c) =>
    /\ (thrown[c] = Some(notFound)) <=> noItems(results[c][1])
    /\ ~noItems(results[c][1]) =>
         /\ ReturnsBook(c)
         /\ \E i \in 1..Len(Candidates(c)) : returned[c] = Some(normalize(Candidates(c)[i]))

\* Where the build lowers const to var, C1's statement holds.
C1_WhereAssignable == build = "var" => C1_NotFoundIffNoItems

\* C2: with minRating > 0 and no candidate reaching it, the call returns the
\* book the same call returns with minRating = 0.
C2_RevertsToComputedScores ==
  \A c \in Calls :
    (Answered(c) /\ ~noItems(results[c][1]) /\ MinRating(c) > 0 /\ Reaching(c) = {}) =>
      /\ ReturnsBook(c)
      /\ returned[c] = ReturnedWith(c, [args[c].options EXCEPT !.minRating = Some(0)])

\* Where the build lowers const to var, C2's statement still fails: the
\* fallback scores every candidate 0.
C2_WhereAssignable == build = "var" => C2_RevertsToComputedScores

\* C3: with exactTitleMatch, if a candidate left by the rating filter has the
\* query as its title the returned book has the query as its title; if none
\* has, the call returns what it returns with exactTitleMatch = false.
C3_ExactTitleNarrowsOrNoOp ==
  \A c \in Calls :
    (Answered(c) /\ ~noItems(results[c][1]) /\ ExactRequested(c)) =>
      IF \E i \in AfterRatingFilter(c) :
           SameTitle(Candidates(c)[i].volumeInfo.title, args[c].query)
      THEN ReturnsBook(c) /\ SameTitle(returned[c][1].title, args[c].query)
      ELSE returned[c] =
             ReturnedWith(c, [args[c].options EXCEPT !.exactTitleMatch = Some(FALSE)])

\* Where the build lowers const to var, C3's statement holds.
C3_WhereAssignable == build = "var" => C3_ExactTitleNarrowsOrNoOp

-----------------------------------------------------------------------------
(* Scores as the properties state them, in hundredths.                      *)

\* ratingsCount/100 + 5*averageRating + 5 for each of description, thumbnail
\* and identifiers: everything of a score but the base and the title bonus.
Merit(v) ==
  NumOr0(v.ratingsCount) + 500 * NumOr0(v.averageRating)
    + (IF v.description # None /\ v.description[1] # <<>> THEN 500 ELSE 0)
    + (IF v.imageLinks # None /\ v.imageLinks[1].thumbnail # None
          /\ v.imageLinks[1].thumbnail[1] # <<>> THEN 500 ELSE 0)
    + (IF v.industryIdentifiers # None /\ v.industryIdentifiers[1] # <<>> THEN 500 ELSE 0)

Contains(title, query) == includes(toLowerCase(title), toLowerCase(query))

\* The title bonus as stated: 50 on equality, otherwise 20 on containment.
StatedBonus(v, query) ==
  IF SameTitle(v.title, query) THEN 5000
  ELSE IF Contains(v.title, query) THEN 2000 ELSE 0

\* The same, with no bonus for an empty title.
NonEmptyBonus(v, query) ==
  IF v.title = <<>> THEN 0
  ELSE IF SameTitle(v.title, query) THEN 5000
  ELSE IF Contains(v.title, query) THEN 2000 ELSE 0

DefaultOptions(c) == args[c].options.minRating = None /\ ~ExactRequested(c)

HasExactTitle(c) ==
  \E i \in 1..Len(Candidates(c)) : SameTitle(Candidates(c)[i].volumeInfo.title, args[c].query)

\* C4: with default options, if some candidate's title equals the query the
\* returned book is a candidate whose title equals the query, whatever the
\* ratings and rating counts.
C4_ExactTitleAlwaysWins ==
  \A c \in Calls : (Answered(c) /\ DefaultOptions(c) /\ HasExactTitle(c)) =>
    ReturnsBook(c) /\ SameTitle(returned[c][1].title, args[c].query)

\* Some candidate with a non-empty title equal to the query trails every
\* candidate of another title by less than 30 points of merit.
ExactWithinThirty(c) ==
  \E e \in 1..Len(Candidates(c)) :
    LET ve == Candidates(c)[e].volumeInfo
    IN  /\ ve.title # <<>>
        /\ SameTitle(ve.title, args[c].query)
        /\ \A i \in 1..Len(Candidates(c)) :
             LET vi == Candidates(c)[i].volumeInfo
             IN  ~SameTitle(vi.title, args[c].query) => Merit(vi) - Merit(ve) < 3000

\* C4 (amended): with default options, if a candidate with a non-empty title
\* equal to the query trails every candidate of another title by less than 30
\* points in ratingsCount/100 + 5*averageRating + completeness, the returned
\* book is a candidate whose title equals the query.
C4_ExactTitleWinsWithinThirty ==
  \A c \in Calls : (Answered(c) /\ DefaultOptions(c) /\ ExactWithinThirty(c)) =>
    ReturnsBook(c) /\ SameTitle(returned[c][1].title, args[c].query)

\* C4 witness: an exact-title candidate is returned although a candidate of
\* another title has the higher rating and the higher rating count.
C4_Witness ==
  \E c \in Calls :
    /\ Answered(c) /\ DefaultOptions(c) /\ ExactWithinThirty(c) /\ ReturnsBook(c)
    /\ \E i \in 1..Len(Candidates(c)) :
         LET vi == Candidates(c)[i].volumeInfo
         IN  /\ ~SameTitle(vi.title, args[c].query)
             /\ NumOr0(vi.averageRating) > returned[c][1].averageRating
             /\ NumOr0(vi.ratingsCount) > returned[c][1].ratingsCount

\* The map gave candidate i of call c the score 10 + merit + bonus.
ScoredAt(c, i, bonus) ==
  /\ locals[c].mapped[i].book = Candidates(c)[i]
  /\ locals[c].mapped[i].score = 1000 + Merit(Candidates(c)[i].volumeInfo) + bonus

\* C5: each candidate's score is 10 + ratingsCount/100 + 5*averageRating + the
\* title bonus + 5 each for description, thumbnail and identifiers, the bonus
\* being 50 when the title equals the query, otherwise 20 when it contains it.
C5_ScoreAsStated ==
  \A c \in Calls : Answered(c) =>
    /\ Len(locals[c].mapped) = Len(Candidates(c))
    /\ \A i \in 1..Len(Candidates(c)) :
         ScoredAt(c, i, StatedBonus(Candidates(c)[i].volumeInfo, args[c].query))

\* C5 (amended): the same, the title bonus being 0 for an empty title.
C5_ScoreWithNonEmptyTitle ==
  \A c \in Calls : Answered(c) =>
    /\ Len(locals[c].mapped) = Len(Candidates(c))
    /\ \A i \in 1..Len(Candidates(c)) :
         ScoredAt(c, i, NonEmptyBonus(Candidates(c)[i].volumeInfo, args[c].query))

\* C5 witness: one candidate whose title both equals and contains the query
\* got the 50 alone, another whose title only contains it got the 20.
C5_Witness ==
  \E c \in Calls : Answered(c) /\
    \E i, j \in 1..Len(locals[c].mapped) :
      LET vi == Candidates(c)[i].volumeInfo
          vj == Candidates(c)[j].volumeInfo
      IN  /\ vi.title # <<>> /\ SameTitle(vi.title, args[c].query)
          /\ Contains(vi.title, args[c].query)
          /\ locals[c].mapped[i].score = 6000 + Merit(vi)
          /\ ~SameTitle(vj.title, args[c].query) /\ Contains(vj.title, args[c].query)
          /\ locals[c].mapped[j].score = 3000 + Merit(vj)

-----------------------------------------------------------------------------
\* A search call whose working set reached the sort.
Sorted(c) == Answered(c) /\ ReturnsBook(c)

\* C6: the sort is a stable descending sort by score: the sorted list holds
\* the working set's candidates, scores never increase along it, candidates
\* of equal score keep the provider's order, and the returned book is the
\* earliest candidate of maximal score.
C6_StableDescendingSort ==
  \A c \in Calls : Sorted(c) =>
    LET w == locals[c].working
        r == locals[c].scoredResults
    IN  /\ Len(r) = Len(w)
        /\ \A k \in 1..Len(w) : \E p \in 1..Len(r) : r[p] = w[k]
        /\ \A p, q \in 1..Len(r) : p < q =>
             /\ r[p].score >= r[q].score
             /\ r[p].score = r[q].score => r[p].book.id < r[q].book.id
        /\ \E k \in 1..Len(w) :
             /\ returned[c] = Some(normalize(w[k].book))
             /\ \A j \in 1..Len(w) :
                  /\ w[j].score <= w[k].score
                  /\ w[j].score = w[k].score => w[k].book.id <= w[j].book.id

\* C6 witness: two candidates tie for the highest score behind a candidate of
\* lower score, and the earlier of the two is returned.
C6_Witness ==
  \E c \in Calls : Sorted(c) /\
    LET w == locals[c].working
    IN  /\ Len(w) >= 3
        /\ w[1].score < w[2].score
        /\ w[2].score = w[3].score
        /\ w[2].book.volumeInfo # w[3].book.volumeInfo
        /\ returned[c][1].googleBooks.id = w[2].book.id

-----------------------------------------------------------------------------
\* The characters of s that are not hyphens, in order.
RECURSIVE Unhyphenated(_)
Unhyphenated(s) ==
  IF s = <<>> THEN <<>>
  ELSE IF Head(s) = "-" THEN Unhyphenated(Tail(s))
  ELSE <<Head(s)>> \o Unhyphenated(Tail(s))

IsbnCall(c) == op[c] = "searchByIsbn"

\* C7: searchByIsbn queries with every hyphen removed; given candidates it
\* returns the normalization of the first one; given none it fails with a
\* not-found error naming the ISBN as given, and returns no book.
C7_IsbnFirstCandidate ==
  \A c \in Calls : IsbnCall(c) =>
    /\ pc[c] # "start" =>
         requests[c] = << [q |-> <<"isbn:">> \o Unhyphenated(args[c].isbn),
                           langRestrict |-> None, maxResults |-> None] >>
    /\ results[c] # None =>
         IF Candidates(c) # <<>>
         THEN ReturnsBook(c) /\ returned[c] = Some(normalize(Candidates(c)[1]))
         ELSE /\ pc[c] = "threw" /\ returned[c] = None
              /\ thrown[c] # None
              /\ thrown[c][1].name = "Error"
              /\ includes(thrown[c][1].message, args[c].isbn)

\* C7 witness: an ISBN with several hyphens was looked up, and the first
\* candidate was returned although a later one has the higher rating.
C7_Witness ==
  \E c \in Calls :
    /\ IsbnCall(c) /\ ReturnsBook(c)
    /\ Len(args[c].isbn) - Len(Unhyphenated(args[c].isbn)) >= 2
    /\ Len(Candidates(c)) >= 2
    /\ Rating(Candidates(c)[2]) > Rating(Candidates(c)[1])
    /\ returned[c][1].googleBooks.id = 1

-----------------------------------------------------------------------------
Made(c) == op[c] # "none"

\* What call c ends with, from its own arguments and its own response alone.
OwnRun(c) ==
  IF op[c] = "search"
  THEN searchRun(build, args[c].query, args[c].options, results[c][1])
  ELSE isbnRun(args[c].isbn, results[c][1])

\* C8: every call hands got one request and never a second; a rejected
\* request ends the call with the rejection itself and no book; a call's
\* outcome is fixed by its own arguments and its own response, whatever the
\* other calls do in between.
C8_OneRequestOwnOutcome ==
  \A c \in Calls : Made(c) =>
    /\ Len(requests[c]) = (IF pc[c] = "start" THEN 0 ELSE 1)
    /\ rejection[c] # None =>
         /\ pc[c] = "threw" /\ thrown[c] = rejection[c]
         /\ returned[c] = None /\ results[c] = None
    /\ results[c] # None =>
         /\ rejection[c] = None
         /\ returned[c] = OwnRun(c).returned
         /\ thrown[c] = OwnRun(c).thrown
    /\ pc[c] \in {"start", "awaiting"} =>
         results[c] = None /\ rejection[c] = None /\ returned[c] = None /\ thrown[c] = None

\* C8 witness: one call has ended with the rejection of its request while
\* another returned a book: both made exactly one request.
C8_Witness ==
  \E c, d \in Calls :
    /\ c # d
    /\ pc[c] = "threw" /\ rejection[c] # None /\ Len(requests[c]) = 1
    /\ pc[d] = "returned" /\ returned[d] # None /\ Len(requests[d]) = 1

-----------------------------------------------------------------------------
NoneReaches(c) ==
  Answered(c) /\ ~noItems(results[c][1]) /\ MinRating(c) > 0 /\ Reaching(c) = {}

\* C9: the working set is empty after both filters exactly when minRating > 0
\* and no candidate reaches it; every returned candidate is then taken with
\* score 0 and the first candidate in the provider's order is returned,
\* whatever the computed scores and exactTitleMatch.
C9_EmptyWorkingSetReturnsFirst ==
  \A c \in Calls : (Answered(c) /\ ~noItems(results[c][1])) =>
    /\ ReturnsBook(c) =>
         (NoneReaches(c) <=> \A k \in 1..Len(locals[c].working) : locals[c].working[k].score = 0)
    /\ NoneReaches(c) =>
         /\ ReturnsBook(c)
         /\ locals[c].working = zeroScored(Candidates(c))
         /\ returned[c] = Some(normalize(Candidates(c)[1]))

\* Where the build lowers const to var, C9's statement holds.
C9_WhereAssignable == build = "var" => C9_EmptyWorkingSetReturnsFirst

\* C10: with minRating > 0 and some candidate reaching it, the returned
\* book's averageRating is at least minRating, with or without
\* exactTitleMatch.
C10_ReturnedReachesMinRating ==
  \A c \in Calls :
    (Answered(c) /\ MinRating(c) > 0 /\ Reaching(c) # {}) =>
      ReturnsBook(c) /\ returned[c][1].averageRating >= MinRating(c)

\* Where the build lowers const to var, C10's statement holds.
C10_WhereAssignable == build = "var" => C10_ReturnedReachesMinRating

====
